---- MODULE Spec2Model ----
(***************************************************************************)
(* A model of the scaling_analysis package: the merge of the fetched       *)
(* tables (data.py), the panel filters and the log transform               *)
(* (features.py), the per-entity fit (viz.py) and the orchestrator         *)
(* (pipeline.py).                                                           *)
(*                                                                          *)
(* A DataFrame is [kind, cols, rows]: cols is the set of measurement       *)
(* column names and rows a set of records [Entity, Code, Year, vals], vals *)
(* a function from cols to a cell.  A cell is an integer or NaN.  Row      *)
(* order and duplicate rows are not represented, except for                *)
(* interpolate_missing, whose frames are sequences of rows.                *)
(***************************************************************************)
EXTENDS Integers, Sequences, FiniteSets, TLC

VARIABLES
    \* merge_dict_datasets (data.py)
    datasets, join, merged, mpc,
    \* log_transform (features.py)
    lt_df, lt_columns, lt_base, lt_pc, lt_before,
    \* remove_high_null_entities and column_pct on the same panel (features.py)
    f_df, null_threshold, column_threshold, kept_coarse, kept_fine,
    \* scaling_analysis_by_entity (viz.py)
    e_data, e_pc, beta_values, adjusted_r_squared_values,
    \* main's loop over scaling_pairs and its summary (pipeline.py:148-199);
    \* raw_log and world_log record the attempts made, printed and
    \* printed_world what the two summaries print
    scaling_pairs, df_columns, o_i, o_pc, all_results, all_world_results,
    raw_log, world_log, printed, printed_world,
    \* main up to the loop (pipeline.py:94-146); stages records the cleaning and
    \* transform functions applied to the panel, in order
    config, raw_data, p_df, p_world, stages, p_pc,
    \* interpolate_missing (features.py): the frame passed in, the frames the
    \* lambda returned for the groups visited so far, and the frame returned
    im_df, im_applied, im_out, im_pc

mergeVars == <<datasets, join, merged, mpc>>
logVars == <<lt_df, lt_columns, lt_base, lt_pc, lt_before>>
filterVars == <<f_df, null_threshold, column_threshold, kept_coarse, kept_fine>>
entityVars == <<e_data, e_pc, beta_values, adjusted_r_squared_values>>
loopVars == <<scaling_pairs, df_columns, o_i, o_pc, all_results, all_world_results,
              raw_log, world_log, printed, printed_world>>
pipeVars == <<config, raw_data, p_df, p_world, stages, p_pc>>
interpVars == <<im_df, im_applied, im_out, im_pc>>

vars == <<mergeVars, logVars, filterVars, entityVars, loopVars, pipeVars, interpVars>>

\* what the actions of one part leave alone
notMerge == <<logVars, filterVars, entityVars, loopVars, pipeVars, interpVars>>
notLog == <<mergeVars, filterVars, entityVars, loopVars, pipeVars, interpVars>>
notFilter == <<mergeVars, logVars, entityVars, loopVars, pipeVars, interpVars>>
notEntity == <<mergeVars, logVars, filterVars, loopVars, pipeVars, interpVars>>
notLoop == <<mergeVars, logVars, filterVars, entityVars, pipeVars, interpVars>>
notPipe == <<mergeVars, logVars, filterVars, entityVars, loopVars, interpVars>>
notInterp == <<mergeVars, logVars, filterVars, entityVars, loopVars, pipeVars>>

(***************************************************************************)
(* Values shared by every part of the model.                               *)
(***************************************************************************)

\* pandas' missing-value marker in a numeric column
NaN == -999

\* a missing Code (the CSV cell is empty and read as null)
NoCode == "<NA>"

\* Python's None
NoneValue == [kind |-> "None"]

DataFrame(cols, rows) == [kind |-> "DataFrame", cols |-> cols, rows |-> rows]

\* config.py: MERGE_COLUMNS, the identifier triple of a row
MERGE_COLUMNS(r) == <<r.Entity, r.Code, r.Year>>

Triples(df) == {MERGE_COLUMNS(r) : r \in df.rows}

Row(key, vals) == [Entity |-> key[1], Code |-> key[2], Year |-> key[3], vals |-> vals]

(***************************************************************************)
(* data.py: merge_dict_datasets                                            *)
(***************************************************************************)

\* the largest number of tables in the mapping
MaxTables == 2

\* the identifier triples a source table may hold: two years of one coded
\* entity and one entity without a code
MergeKeys == {<<"A", "AAA", 1>>, <<"A", "AAA", 2>>, <<"B", NoCode, 1>>}

MergeCells == {NaN, 1}

JoinKinds == {"left", "right", "outer", "inner", "cross"}

\* the measurement column the k-th table supplies
ColumnOf(k) == "c" \o ToString(k)

\* every table with the one measurement column col: one row per triple at most
TablesWith(col) ==
    UNION {{DataFrame({col}, {Row(k, [c \in {col} |-> f[k]]) : k \in ks})
               : f \in [ks -> MergeCells]} : ks \in SUBSET MergeKeys}

\* one merged row from a left and a right row with the same key
Combine(l, r, lcols, rcols) ==
    [Entity |-> l.Entity, Code |-> l.Code, Year |-> l.Year,
     vals |-> [c \in lcols \cup rcols |-> IF c \in lcols THEN l.vals[c] ELSE r.vals[c]]]

\* a row of one side with the other side's columns null
PadNull(x, xcols, ocols) ==
    [Entity |-> x.Entity, Code |-> x.Code, Year |-> x.Year,
     vals |-> [c \in xcols \cup ocols |-> IF c \in xcols THEN x.vals[c] ELSE NaN]]

\* pd.merge that keeps only the triples both sides hold, whatever how says
PdMergeInner(left, right, how) ==
    DataFrame(left.cols \cup right.cols,
              {Combine(l, r, left.cols, right.cols) :
                  <<l, r>> \in {p \in left.rows \X right.rows :
                                   MERGE_COLUMNS(p[1]) = MERGE_COLUMNS(p[2])}})

\* pd.merge(left, right, on=['Entity', 'Code', 'Year'], how=how); null keys match
\* null keys, as pandas does
PdMerge(left, right, how) ==
    LET matched == {Combine(p[1], p[2], left.cols, right.cols) :
                       p \in {q \in left.rows \X right.rows :
                                 MERGE_COLUMNS(q[1]) = MERGE_COLUMNS(q[2])}}
        leftOnly == {PadNull(l, left.cols, right.cols) :
                        l \in {x \in left.rows : MERGE_COLUMNS(x) \notin Triples(right)}}
        rightOnly == {PadNull(r, right.cols, left.cols) :
                         r \in {x \in right.rows : MERGE_COLUMNS(x) \notin Triples(left)}}
    IN DataFrame(left.cols \cup right.cols,
                 matched
                   \cup (IF how \in {"outer", "left"} THEN leftOnly ELSE {})
                   \cup (IF how \in {"outer", "right"} THEN rightOnly ELSE {}))

MergeStart ==
    /\ datasets \in UNION {[1..n -> UNION {TablesWith(ColumnOf(k)) : k \in 1..MaxTables}]
                              : n \in 0..MaxTables}
    /\ \A k \in DOMAIN datasets : datasets[k].cols = {ColumnOf(k)}
    /\ join \in JoinKinds
    /\ merged = NoneValue
    /\ mpc = 1

MergeIdle ==
    /\ datasets = <<>>
    /\ join = "outer"
    /\ merged = NoneValue
    /\ mpc = 0

\* data.py:41-42, the first table of the mapping
MergeFirst ==
    /\ mpc = 1
    /\ mpc <= Len(datasets)
    /\ merged = NoneValue
    /\ merged' = datasets[mpc]
    /\ mpc' = mpc + 1
    /\ UNCHANGED <<datasets, join>>
    /\ UNCHANGED notMerge

\* data.py:43-44, every later table
MergeNext ==
    /\ mpc > 1
    /\ mpc <= Len(datasets)
    /\ merged # NoneValue
    /\ join # "cross"
    /\ merged' = PdMerge(merged, datasets[mpc], join)
    /\ mpc' = mpc + 1
    /\ UNCHANGED <<datasets, join>>
    /\ UNCHANGED notMerge

\* data.py:44, pd.merge rejects how='cross' together with on=
MergeRaise ==
    /\ mpc > 1
    /\ mpc <= Len(datasets)
    /\ join = "cross"
    /\ mpc' = -1
    /\ UNCHANGED <<datasets, join, merged>>
    /\ UNCHANGED notMerge

\* data.py:45, return merged
MergeReturn ==
    /\ mpc = Len(datasets) + 1
    /\ mpc' = 0
    /\ UNCHANGED <<datasets, join, merged>>
    /\ UNCHANGED notMerge

MergeReturned == mpc = 0
MergeRaised == mpc = -1

NextMerge == MergeFirst \/ MergeNext \/ MergeRaise \/ MergeReturn

(***************************************************************************)
(* features.py: log_transform                                              *)
(***************************************************************************)

\* 1000 * ln(n) for n = 1..40, rounded: the fixed-point natural logarithm
LnMilli ==
    <<0, 693, 1099, 1386, 1609, 1792, 1946, 2079, 2197, 2303,
      2398, 2485, 2565, 2639, 2708, 2773, 2833, 2890, 2944, 2996,
      3045, 3091, 3135, 3178, 3219, 3258, 3296, 3332, 3367, 3401,
      3434, 3466, 3497, 3526, 3555, 3584, 3611, 3638, 3664, 3689>>

\* the bases of the model: np.e (the default) and 2
Bases == {"e", "2"}

\* np.log(base), in thousandths
LnOfBase(base) == IF base = "e" THEN 1000 ELSE LnMilli[2]

\* np.log1p(v), then the division by np.log(base) of features.py:88-89
Log1p(v, base) ==
    IF v = NaN THEN NaN
    ELSE IF base = "e" THEN LnMilli[1 + v]
    ELSE (LnMilli[1 + v] * 1000) \div LnOfBase(base)

\* (df[col] < 0).any(): a null cell compares False
HasNegative(df, col) == \E r \in df.rows : r.vals[col] # NaN /\ r.vals[col] < 0

\* features.py:86-90, one iteration's else branch: df[new_col] = log_values,
\* in place, adds the column or overwrites it
LogColumn(df, col, base, suffix) ==
    DataFrame(df.cols \cup {col \o suffix},
              {[r EXCEPT !.vals = [c \in df.cols \cup {col \o suffix} |->
                                      IF c = col \o suffix
                                      THEN Log1p(r.vals[col], base)
                                      ELSE r.vals[c]]]
                  : r \in df.rows})

\* the whole call: the dataframe as the call leaves it, and what it raised
RECURSIVE LogTransformFrom(_, _, _, _, _)
LogTransformFrom(df, columns, base, suffix, i) ==
    IF i > Len(columns) THEN [df |-> df, raised |-> "none"]
    ELSE IF columns[i] \notin df.cols THEN [df |-> df, raised |-> "KeyError"]
    ELSE IF HasNegative(df, columns[i]) THEN [df |-> df, raised |-> "ValueError"]
    ELSE LogTransformFrom(LogColumn(df, columns[i], base, suffix), columns, base, suffix, i + 1)

log_transform(df, columns, base, suffix) == LogTransformFrom(df, columns, base, suffix, 1)

\* the longest list of columns
MaxColumns == 2

LogKeys == {<<"A", "AAA", 1>>, <<"B", "BBB", 1>>}

LogCells == {NaN, -1, 0, 1}

\* "zz" is a column the dataframe does not have
LogColumnNames == {"a", "b", "zz"}

LogFrames ==
    {DataFrame({"a", "b"}, {Row(k, f[k]) : k \in LogKeys})
        : f \in [LogKeys -> [{"a", "b"} -> LogCells]]}

LogStart ==
    /\ lt_df \in LogFrames
    /\ lt_columns \in UNION {[1..n -> LogColumnNames] : n \in 0..MaxColumns}
    /\ lt_base \in Bases
    /\ lt_pc = 1
    /\ lt_before = lt_df

LogIdle ==
    /\ lt_df = NoneValue
    /\ lt_columns = <<>>
    /\ lt_base = "e"
    /\ lt_pc = 0
    /\ lt_before = NoneValue

LogRunning == lt_pc >= 1 /\ lt_pc <= Len(lt_columns)

\* features.py:85-90
LogStep ==
    /\ LogRunning
    /\ lt_columns[lt_pc] \in lt_df.cols
    /\ ~HasNegative(lt_df, lt_columns[lt_pc])
    /\ lt_df' = LogColumn(lt_df, lt_columns[lt_pc], lt_base, "_log")
    /\ lt_pc' = lt_pc + 1
    /\ UNCHANGED <<lt_columns, lt_base, lt_before>>
    /\ UNCHANGED notLog

\* features.py:83-84
LogRaiseValueError ==
    /\ LogRunning
    /\ lt_columns[lt_pc] \in lt_df.cols
    /\ HasNegative(lt_df, lt_columns[lt_pc])
    /\ lt_pc' = -1
    /\ UNCHANGED <<lt_df, lt_columns, lt_base, lt_before>>
    /\ UNCHANGED notLog

\* features.py:83, df[col] of a column the dataframe lacks
LogRaiseKeyError ==
    /\ LogRunning
    /\ lt_columns[lt_pc] \notin lt_df.cols
    /\ lt_pc' = -2
    /\ UNCHANGED <<lt_df, lt_columns, lt_base, lt_before>>
    /\ UNCHANGED notLog

\* features.py:91
LogReturn ==
    /\ lt_pc = Len(lt_columns) + 1
    /\ lt_pc' = 0
    /\ UNCHANGED <<lt_df, lt_columns, lt_base, lt_before>>
    /\ UNCHANGED notLog

LogReturned == lt_pc = 0
LogRaisedValueError == lt_pc = -1
LogRaisedKeyError == lt_pc = -2

NextLog == LogStep \/ LogRaiseValueError \/ LogRaiseKeyError \/ LogReturn

\* the stepped call and the whole-call operator agree
LogStepsAgree ==
    /\ LogReturned =>
          log_transform(lt_before, lt_columns, lt_base, "_log") = [df |-> lt_df, raised |-> "none"]
    /\ LogRaisedValueError =>
          log_transform(lt_before, lt_columns, lt_base, "_log") = [df |-> lt_df, raised |-> "ValueError"]
    /\ LogRaisedKeyError =>
          log_transform(lt_before, lt_columns, lt_base, "_log") = [df |-> lt_df, raised |-> "KeyError"]

(***************************************************************************)
(* features.py: the panel filters                                          *)
(*                                                                          *)
(* Thresholds are held in thousandths, so that the configured 0.8          *)
(* (null_threshold, a fraction) is 800 and the configured 0.2              *)
(* (column_threshold, a percentage) is 2; the comparisons are              *)
(* cross-multiplied and exact.                                             *)
(***************************************************************************)

\* features.py:26
remove_entities_without_iso(df) ==
    DataFrame(df.cols, {r \in df.rows : r.Code # NoCode /\ r.Code # ""})

\* features.py:32-36; a bound is <<>> (None) or <<year>>
select_year_range(df, year_min, year_max) ==
    DataFrame(df.cols,
              {r \in df.rows : /\ (year_min # <<>> => r.Year >= year_min[1])
                               /\ (year_max # <<>> => r.Year <= year_max[1])})

EntitiesOf(df) == {r.Entity : r \in df.rows}

\* df.groupby('Entity'): one group per entity, with all its rows
Group(df, e) == {r \in df.rows : r.Entity = e}

\* the columns of a group's frame: the identifiers and the measurements
AllColumns(df) == {"Entity", "Code", "Year"} \cup df.cols

\* g.isnull(), one cell
IsNull(r, c) ==
    CASE c = "Entity" -> FALSE
      [] c = "Year" -> FALSE
      [] c = "Code" -> r.Code = NoCode
      [] OTHER -> r.vals[c] = NaN

NullCount(df, e, c) == Cardinality({r \in Group(df, e) : IsNull(r, c)})

NullCells(df, e) == Cardinality({p \in Group(df, e) \X AllColumns(df) : IsNull(p[1], p[2])})

\* features.py:43-44: g.isnull().mean().mean() < threshold
BelowNullThreshold(df, e, threshold) ==
    1000 * NullCells(df, e) < threshold * Cardinality(Group(df, e)) * Cardinality(AllColumns(df))

\* features.py:43-45
remove_high_null_entities(df, threshold) ==
    DataFrame(df.cols, {r \in df.rows : BelowNullThreshold(df, r.Entity, threshold)})

\* features.py:55, one column of one entity: group.isnull().mean() * 100 < threshold
ColumnBelow(df, e, c, threshold) ==
    1000 * NullCount(df, e, c) < threshold * Cardinality(Group(df, e))

\* column_pct keeping an entity as soon as one column is below the threshold
ColumnPctAny(df, threshold) ==
    DataFrame(df.cols,
              {r \in df.rows : \E c \in AllColumns(df) : ColumnBelow(df, r.Entity, c, threshold)})

\* features.py:55-63
column_pct(df, threshold) ==
    DataFrame(df.cols,
              {r \in df.rows : \A c \in AllColumns(df) : ColumnBelow(df, r.Entity, c, threshold)})

\* the most rows (years) an entity has
MaxRows == 2

\* pipeline.py:48, null_threshold 0.8, in thousandths
DefaultNullThreshold == 800

\* pipeline.py:49, column_threshold 0.2 (per cent), in thousandths
DefaultColumnThreshold == 2

\* null_threshold values (fractions 0.1, 0.5, 0.8), in thousandths
NullThresholds == {100, 500, DefaultNullThreshold}

\* column_threshold values (0.2, 20 and 60 per cent), in thousandths
ColumnThresholds == {DefaultColumnThreshold, 200, 600}

FilterCells == {NaN, 1}

\* the rows one entity may have: its first n years, any cells
EntityRows(e, code) ==
    UNION {{{Row(<<e, code, y>>, f[y]) : y \in 1..n}
               : f \in [1..n -> [{"x", "y"} -> FilterCells]]} : n \in 0..MaxRows}

\* entity A has a code; entity B has one or has none
FilterStart ==
    /\ f_df \in {DataFrame({"x", "y"}, a \cup b) :
                    a \in EntityRows("A", "AAA"),
                    b \in EntityRows("B", "BBB") \cup EntityRows("B", NoCode)}
    /\ null_threshold \in NullThresholds
    /\ column_threshold \in ColumnThresholds
    /\ kept_coarse = NoneValue
    /\ kept_fine = NoneValue

FilterIdle ==
    /\ f_df = NoneValue
    /\ null_threshold = DefaultNullThreshold
    /\ column_threshold = DefaultColumnThreshold
    /\ kept_coarse = NoneValue
    /\ kept_fine = NoneValue

\* remove_high_null_entities(df, threshold=null_threshold)
FilterCoarse ==
    /\ f_df # NoneValue
    /\ kept_coarse = NoneValue
    /\ kept_coarse' = remove_high_null_entities(f_df, null_threshold)
    /\ UNCHANGED <<f_df, null_threshold, column_threshold, kept_fine>>
    /\ UNCHANGED notFilter

\* column_pct(df, threshold=column_threshold), on the same panel
FilterFine ==
    /\ f_df # NoneValue
    /\ kept_fine = NoneValue
    /\ kept_fine' = column_pct(f_df, column_threshold)
    /\ UNCHANGED <<f_df, null_threshold, column_threshold, kept_coarse>>
    /\ UNCHANGED notFilter

NextFilter == FilterCoarse \/ FilterFine

(***************************************************************************)
(* viz.py: scaling_analysis_by_entity                                      *)
(*                                                                          *)
(* A slope and an R^2 are exact fractions <<numerator, denominator>>.  The *)
(* cells of the two regression columns are integers here: a null cell      *)
(* makes linregress return nan and plays no part in the group-size logic.  *)
(***************************************************************************)

RECURSIVE SumCol(_, _)
\* sum of column c over a set of rows
SumCol(rows, c) ==
    IF rows = {} THEN 0
    ELSE LET r == CHOOSE x \in rows : TRUE IN r.vals[c] + SumCol(rows \ {r}, c)

RECURSIVE SumProd(_, _, _)
\* sum of the products of columns c and d over a set of rows
SumProd(rows, c, d) ==
    IF rows = {} THEN 0
    ELSE LET r == CHOOSE x \in rows : TRUE IN r.vals[c] * r.vals[d] + SumProd(rows \ {r}, c, d)

\* n^2 times the covariance of columns c and d over the rows
Cov(rows, c, d) ==
    Cardinality(rows) * SumProd(rows, c, d) - SumCol(rows, c) * SumCol(rows, d)

\* scipy.stats.linregress refuses a sample whose x values are all identical
XIdentical(rows, xc) == Cardinality(rows) > 1 /\ Cov(rows, xc, xc) = 0

\* result[0] of linregress: ssxym / ssxm
Slope(rows, xc, yc) == <<Cov(rows, xc, yc), Cov(rows, xc, xc)>>

\* float(r_value) ** 2: r is 0 when y does not vary
RSquared(rows, xc, yc) ==
    IF Cov(rows, yc, yc) = 0 THEN <<0, 1>>
    ELSE <<Cov(rows, xc, yc) * Cov(rows, xc, yc), Cov(rows, xc, xc) * Cov(rows, yc, yc)>>

\* viz.py:74, the number of predictors
k_predictors == 1

\* viz.py:76: 1 - ((1 - r_squared) * (n - 1) / (n - k_predictors - 1)), for n - k_predictors - 1 # 0
AdjustedRSquared(r2, n) ==
    <<r2[2] * (n - k_predictors - 1) - (r2[2] - r2[1]) * (n - 1), r2[2] * (n - k_predictors - 1)>>

\* the most observations an entity has
MaxObs == 3

\* data.groupby('Entity') visits the groups in sorted order
EntityOrder == <<"A", "B">>

FitCells == {0, 1}

\* the rows one entity may have: its first n years, any cells
FitRows(e) ==
    UNION {{{Row(<<e, "AAA", y>>, f[y]) : y \in 1..n}
               : f \in [1..n -> [{"log_x", "log_y"} -> FitCells]]} : n \in 0..MaxObs}

EntityStart ==
    /\ e_data \in {DataFrame({"log_x", "log_y"}, a \cup b) : a \in FitRows("A"), b \in FitRows("B")}
    /\ e_pc = 1
    /\ beta_values = <<>>
    /\ adjusted_r_squared_values = <<>>

EntityIdle ==
    /\ e_data = NoneValue
    /\ e_pc = 0
    /\ beta_values = <<>>
    /\ adjusted_r_squared_values = <<>>

EntityRunning == e_pc >= 1 /\ e_pc <= Len(EntityOrder)

\* the group the loop is at (empty when the entity has no row: no group then)
CurrentGroup == Group(e_data, EntityOrder[e_pc])

\* viz.py:63, the guard is false (or the entity has no group at all)
EntitySkip ==
    /\ EntityRunning
    /\ ~(Cardinality(CurrentGroup) > 1)
    /\ e_pc' = e_pc + 1
    /\ UNCHANGED <<e_data, beta_values, adjusted_r_squared_values>>
    /\ UNCHANGED notEntity

\* viz.py:68, linregress raises ValueError: all x values identical
EntityRaiseValueError ==
    /\ EntityRunning
    /\ Cardinality(CurrentGroup) > 1
    /\ XIdentical(CurrentGroup, "log_x")
    /\ e_pc' = -1
    /\ UNCHANGED <<e_data, beta_values, adjusted_r_squared_values>>
    /\ UNCHANGED notEntity

\* viz.py:76, the division by n - k_predictors - 1 = 0 raises ZeroDivisionError
EntityRaiseZeroDivision ==
    /\ EntityRunning
    /\ Cardinality(CurrentGroup) > 1
    /\ ~XIdentical(CurrentGroup, "log_x")
    /\ Cardinality(CurrentGroup) - k_predictors - 1 = 0
    /\ e_pc' = -2
    /\ UNCHANGED <<e_data, beta_values, adjusted_r_squared_values>>
    /\ UNCHANGED notEntity

\* viz.py:64-80
EntityFit ==
    /\ EntityRunning
    /\ Cardinality(CurrentGroup) > 1
    /\ ~XIdentical(CurrentGroup, "log_x")
    /\ Cardinality(CurrentGroup) - k_predictors - 1 # 0
    /\ beta_values' = Append(beta_values, Slope(CurrentGroup, "log_x", "log_y"))
    /\ adjusted_r_squared_values' =
          Append(adjusted_r_squared_values,
                 AdjustedRSquared(RSquared(CurrentGroup, "log_x", "log_y"),
                                  Cardinality(CurrentGroup)))
    /\ e_pc' = e_pc + 1
    /\ UNCHANGED e_data
    /\ UNCHANGED notEntity

\* viz.py:82-104, the histograms and the summaries
EntityReport ==
    /\ e_pc = Len(EntityOrder) + 1
    /\ e_pc' = 0
    /\ UNCHANGED <<e_data, beta_values, adjusted_r_squared_values>>
    /\ UNCHANGED notEntity

EntityReported == e_pc = 0 /\ e_data # NoneValue
EntityRaisedValueError == e_pc = -1
EntityRaisedZeroDivision == e_pc = -2

NextEntity ==
    EntitySkip \/ EntityRaiseValueError \/ EntityRaiseZeroDivision \/ EntityFit \/ EntityReport

(***************************************************************************)
(* pipeline.py: main, the loop over scaling_pairs and the summary          *)
(*                                                                          *)
(* The loop starts from the transformed panel df and its yearly sums       *)
(* world; of these the loop needs the columns they have (both have the     *)
(* same numeric columns).  Whether a fit, a plot or a savefig fails is     *)
(* decided outside the loop, so every outcome of analyze_scaling is        *)
(* possible at every attempt.  A dict is a sequence of [key, value]        *)
(* entries in insertion order.                                             *)
(***************************************************************************)

\* the longest list of scaling pairs
MaxPairs == 2

\* the slopes a successful fit may report
Slopes == {1, 2}

PairTitles == {"T1", "T2"}

\* the regression columns a pair may name
PairYColumns == {"gdp_log", "energy_log"}

\* a scaling pair of the configuration
ScalingPairs ==
    [x_col : {"pop_log"}, y_col : PairYColumns, title : PairTitles, save_path : {"fig.png"}]

\* the columns of the transformed panel: with or without the energy column
FrameColumns == {{"pop_log", "gdp_log"}, {"pop_log", "gdp_log", "energy_log"}}

\* pipeline.py:58-92, analyze_scaling: what one call may do.  df[x_col] of a
\* missing column raises KeyError; otherwise the fit (or the plot, or savefig)
\* raises, or the call returns the results of fit_log_log_regression
analyze_scaling(columns, x_col, y_col) ==
    IF x_col \notin columns \/ y_col \notin columns
    THEN {[ok |-> FALSE, error |-> "KeyError"]}
    ELSE {[ok |-> FALSE, error |-> "ValueError"]}
           \cup {[ok |-> TRUE, results |-> [slope |-> s]] : s \in Slopes}

HasKey(d, key) == \E j \in DOMAIN d : d[j].key = key

\* d[key] = value
DictSet(d, key, value) ==
    IF HasKey(d, key)
    THEN [j \in DOMAIN d |-> IF d[j].key = key THEN [key |-> key, value |-> value] ELSE d[j]]
    ELSE Append(d, [key |-> key, value |-> value])

\* what a handler of the loop would do if it let the exception through
HandlerAborts(idx) == [o_i |-> idx, o_pc |-> "aborted"]

\* what the first handler would do without its continue
HandlerFallsThrough(idx) == [o_i |-> idx, o_pc |-> "world"]

\* pipeline.py:165-167, the handler of the raw-panel attempt: print, continue
RawHandler(idx) == [o_i |-> idx + 1, o_pc |-> "raw"]

\* pipeline.py:180-182, the handler of the world attempt: print, continue
WorldHandler(idx) == [o_i |-> idx + 1, o_pc |-> "raw"]

LoopStart ==
    /\ scaling_pairs \in UNION {[1..n -> ScalingPairs] : n \in 0..MaxPairs}
    /\ df_columns \in FrameColumns
    /\ o_i = 1
    /\ o_pc = "raw"
    /\ all_results = <<>>
    /\ all_world_results = <<>>
    /\ raw_log = <<>>
    /\ world_log = <<>>
    /\ printed = <<>>
    /\ printed_world = <<>>

LoopIdle ==
    /\ scaling_pairs = <<>>
    /\ df_columns = {}
    /\ o_i = 1
    /\ o_pc = "idle"
    /\ all_results = <<>>
    /\ all_world_results = <<>>
    /\ raw_log = <<>>
    /\ world_log = <<>>
    /\ printed = <<>>
    /\ printed_world = <<>>

\* pipeline.py:151-164, the raw-panel analysis of pair o_i succeeds
RawOk ==
    /\ o_pc = "raw"
    /\ o_i <= Len(scaling_pairs)
    /\ \E out \in analyze_scaling(df_columns, scaling_pairs[o_i].x_col, scaling_pairs[o_i].y_col) :
          /\ out.ok
          /\ all_results' = DictSet(all_results, scaling_pairs[o_i].title, out.results)
    /\ raw_log' = Append(raw_log, [pair |-> o_i, ok |-> TRUE])
    /\ o_pc' = "world"
    /\ UNCHANGED <<scaling_pairs, df_columns, o_i, all_world_results, world_log, printed,
                   printed_world>>
    /\ UNCHANGED notLoop

\* pipeline.py:156-167, the raw-panel analysis of pair o_i raises
RawFail ==
    /\ o_pc = "raw"
    /\ o_i <= Len(scaling_pairs)
    /\ \E out \in analyze_scaling(df_columns, scaling_pairs[o_i].x_col, scaling_pairs[o_i].y_col) :
          ~out.ok
    /\ raw_log' = Append(raw_log, [pair |-> o_i, ok |-> FALSE])
    /\ o_i' = RawHandler(o_i).o_i
    /\ o_pc' = RawHandler(o_i).o_pc
    /\ UNCHANGED <<scaling_pairs, df_columns, all_results, all_world_results, world_log,
                   printed, printed_world>>
    /\ UNCHANGED notLoop

\* pipeline.py:169-179, the world analysis of pair o_i succeeds
WorldOk ==
    /\ o_pc = "world"
    /\ \E out \in analyze_scaling(df_columns, scaling_pairs[o_i].x_col, scaling_pairs[o_i].y_col) :
          /\ out.ok
          /\ all_world_results' =
                DictSet(all_world_results, scaling_pairs[o_i].title \o " (World)", out.results)
    /\ world_log' = Append(world_log, [pair |-> o_i, ok |-> TRUE])
    /\ o_i' = o_i + 1
    /\ o_pc' = "raw"
    /\ UNCHANGED <<scaling_pairs, df_columns, all_results, raw_log, printed, printed_world>>
    /\ UNCHANGED notLoop

\* pipeline.py:169-182, the world analysis of pair o_i raises
WorldFail ==
    /\ o_pc = "world"
    /\ \E out \in analyze_scaling(df_columns, scaling_pairs[o_i].x_col, scaling_pairs[o_i].y_col) :
          ~out.ok
    /\ world_log' = Append(world_log, [pair |-> o_i, ok |-> FALSE])
    /\ o_i' = WorldHandler(o_i).o_i
    /\ o_pc' = WorldHandler(o_i).o_pc
    /\ UNCHANGED <<scaling_pairs, df_columns, all_results, all_world_results, raw_log,
                   printed, printed_world>>
    /\ UNCHANGED notLoop

\* pipeline.py:183-199, the two summaries
Summary ==
    /\ o_pc = "raw"
    /\ o_i = Len(scaling_pairs) + 1
    /\ printed' = all_results
    /\ printed_world' = all_world_results
    /\ o_pc' = "done"
    /\ UNCHANGED <<scaling_pairs, df_columns, o_i, all_results, all_world_results, raw_log,
                   world_log>>
    /\ UNCHANGED notLoop

NextLoop == RawOk \/ RawFail \/ WorldOk \/ WorldFail \/ Summary

(***************************************************************************)
(* pipeline.py: main, from the fetched tables to the loop                  *)
(*                                                                          *)
(* Two of the six datasets of BASE_VARIABLES are modelled: gdp_penn, with  *)
(* the column GDP, and population, with the columns Population (the        *)
(* estimates) and Population_medium (the projections, null in every        *)
(* historical year).  raw_data is what fetch_data returned: the tables     *)
(* whose download succeeded, in the order of BASE_VARIABLES.               *)
(***************************************************************************)

RECURSIVE MergeFrom(_, _, _, _)
\* data.py:40-44 from the j-th table on, acc being merged so far
MergeFrom(ds, how, acc, j) ==
    IF j > Len(ds) THEN acc
    ELSE MergeFrom(ds, how, IF acc = NoneValue THEN ds[j] ELSE PdMerge(acc, ds[j], how), j + 1)

\* data.py:39-45, the whole call (how is not 'cross')
merge_dict_datasets(ds, how) == MergeFrom(ds, how, NoneValue, 1)

RECURSIVE SumSkipNa(_, _)
\* the sum of column c over a set of rows, nulls skipped (0 when all are null)
SumSkipNa(rows, c) ==
    IF rows = {} THEN 0
    ELSE LET r == CHOOSE x \in rows : TRUE
         IN (IF r.vals[c] = NaN THEN 0 ELSE r.vals[c]) + SumSkipNa(rows \ {r}, c)

\* pipeline.py:144, df.groupby(['Year']).sum(): one row per year, every numeric
\* column summed over the entities (the concatenated Entity and Code strings
\* are left out)
GroupbyYearSum(df) ==
    DataFrame(df.cols,
              {[Year |-> y,
                vals |-> [c \in df.cols |-> SumSkipNa({r \in df.rows : r.Year = y}, c)]]
                  : y \in {r.Year : r \in df.rows}})

\* pipeline.py:46, year_min
DefaultYearMin == 1990

\* pipeline.py:47, year_max
DefaultYearMax == 2019

\* pipeline.py:45-55, analysis_params and data_processing of the configuration
Configs ==
    [year_min : {<<DefaultYearMin>>}, year_max : {<<DefaultYearMax>>},
     null_threshold : {DefaultNullThreshold}, column_threshold : {DefaultColumnThreshold},
     log_base : {"e"},
     remove_medium_variant : BOOLEAN, convert_energy_units : BOOLEAN]

\* the triples a fetched table may hold: two coded entities, one year of B
\* before year_min, and an aggregate without a code
PanelKeys ==
    {<<"A", "AAA", 1990>>, <<"A", "AAA", 1991>>, <<"B", "BBB", 1989>>,
     <<"B", "BBB", 1990>>, <<"W", NoCode, 1990>>}

\* the value of the cells of one table
PanelLevels == {1, 2}

GdpTables ==
    {DataFrame({"GDP"}, {Row(key, [c \in {"GDP"} |-> v]) : key \in ks})
        : ks \in SUBSET PanelKeys, v \in PanelLevels}

PopulationTables ==
    {DataFrame({"Population", "Population_medium"},
               {Row(key, [c \in {"Population", "Population_medium"} |->
                             IF c = "Population" THEN v ELSE NaN]) : key \in ks})
        : ks \in SUBSET PanelKeys, v \in PanelLevels}

\* pipeline.py:102, fetch_data(BASE_VARIABLES): any subset of the tables
FetchResults ==
    {<<>>} \cup {<<g>> : g \in GdpTables} \cup {<<q>> : q \in PopulationTables}
           \cup {<<g, q>> : g \in GdpTables, q \in PopulationTables}

\* pipeline.py:132-139, the columns main log-transforms
LogColumns == <<"Population", "GDP">>

PipeStart ==
    /\ config \in Configs
    /\ raw_data \in FetchResults
    /\ p_df = NoneValue
    /\ p_world = NoneValue
    /\ stages = <<>>
    /\ p_pc = "merge"

PipeIdle ==
    /\ config = NoneValue
    /\ raw_data = <<>>
    /\ p_df = NoneValue
    /\ p_world = NoneValue
    /\ stages = <<>>
    /\ p_pc = "idle"

\* pipeline.py:109
PipeMerge ==
    /\ p_pc = "merge"
    /\ p_df' = merge_dict_datasets(raw_data, "outer")
    /\ p_pc' = "adjust"
    /\ UNCHANGED <<config, raw_data, p_world, stages>>
    /\ UNCHANGED notPipe

\* pipeline.py:112-122, the two column adjustments and the prints
PipeAdjust ==
    /\ p_pc = "adjust"
    /\ p_df # NoneValue
    /\ p_df' = IF config.remove_medium_variant /\ "Population_medium" \in p_df.cols
               THEN DataFrame(p_df.cols \ {"Population_medium"},
                              {[r EXCEPT !.vals = [c \in p_df.cols \ {"Population_medium"} |->
                                                      r.vals[c]]] : r \in p_df.rows})
               ELSE p_df
    /\ p_pc' = "iso"
    /\ UNCHANGED <<config, raw_data, p_world, stages>>
    /\ UNCHANGED notPipe

\* pipeline.py:112-121, df is None: df.columns raises AttributeError
PipeAdjustRaises ==
    /\ p_pc = "adjust"
    /\ p_df = NoneValue
    /\ p_pc' = "AttributeError"
    /\ UNCHANGED <<config, raw_data, p_df, p_world, stages>>
    /\ UNCHANGED notPipe

\* pipeline.py:128
PipeIso ==
    /\ p_pc = "iso"
    /\ p_df' = remove_entities_without_iso(p_df)
    /\ stages' = Append(stages, "remove_entities_without_iso")
    /\ p_pc' = "year"
    /\ UNCHANGED <<config, raw_data, p_world>>
    /\ UNCHANGED notPipe

\* pipeline.py:129
PipeYear ==
    /\ p_pc = "year"
    /\ p_df' = select_year_range(p_df, config.year_min, config.year_max)
    /\ stages' = Append(stages, "select_year_range")
    /\ p_pc' = "null_rate"
    /\ UNCHANGED <<config, raw_data, p_world>>
    /\ UNCHANGED notPipe

\* pipeline.py:130
PipeNullRate ==
    /\ p_pc = "null_rate"
    /\ p_df' = remove_high_null_entities(p_df, config.null_threshold)
    /\ stages' = Append(stages, "remove_high_null_entities")
    /\ p_pc' = "column_pct"
    /\ UNCHANGED <<config, raw_data, p_world>>
    /\ UNCHANGED notPipe

\* pipeline.py:131
PipeColumnPct ==
    /\ p_pc = "column_pct"
    /\ p_df' = column_pct(p_df, config.column_threshold)
    /\ stages' = Append(stages, "column_pct")
    /\ p_pc' = "log"
    /\ UNCHANGED <<config, raw_data, p_world>>
    /\ UNCHANGED notPipe

\* pipeline.py:132-140, log_transform returns
PipeLog ==
    /\ p_pc = "log"
    /\ log_transform(p_df, LogColumns, config.log_base, "_log").raised = "none"
    /\ p_df' = log_transform(p_df, LogColumns, config.log_base, "_log").df
    /\ stages' = Append(stages, "log_transform")
    /\ p_pc' = "world"
    /\ UNCHANGED <<config, raw_data, p_world>>
    /\ UNCHANGED notPipe

\* pipeline.py:132-140, log_transform raises (a column of a table that was not
\* fetched, or a negative value) and main ends
PipeLogRaises ==
    /\ p_pc = "log"
    /\ log_transform(p_df, LogColumns, config.log_base, "_log").raised # "none"
    /\ p_pc' = log_transform(p_df, LogColumns, config.log_base, "_log").raised
    /\ UNCHANGED <<config, raw_data, p_df, p_world, stages>>
    /\ UNCHANGED notPipe

\* pipeline.py:144
PipeWorld ==
    /\ p_pc = "world"
    /\ p_world' = GroupbyYearSum(p_df)
    /\ p_pc' = "check_nulls"
    /\ UNCHANGED <<config, raw_data, p_df, stages>>
    /\ UNCHANGED notPipe

\* pipeline.py:146-150, check_nulls prints; the loop over scaling_pairs, where
\* every regression is run, starts
PipeCheckNulls ==
    /\ p_pc = "check_nulls"
    /\ p_pc' = "analysis"
    /\ UNCHANGED <<config, raw_data, p_df, p_world, stages>>
    /\ UNCHANGED notPipe

NextPipe ==
    \/ PipeMerge \/ PipeAdjust \/ PipeAdjustRaises \/ PipeIso \/ PipeYear \/ PipeNullRate
    \/ PipeColumnPct \/ PipeLog \/ PipeLogRaises \/ PipeWorld \/ PipeCheckNulls

(***************************************************************************)
(* features.py: interpolate_missing                                        *)
(*                                                                          *)
(* A frame is a sequence of rows [Entity, Year, val], in row order, with   *)
(* one float measurement column val.  g.interpolate(method="linear")       *)
(* changes float columns only and ignores the index: it treats the rows of *)
(* the group as equally spaced, in the order they stand in the frame.      *)
(***************************************************************************)

\* the positions of a column that hold a value
ValidPositions(col) == {q \in DOMAIN col : col[q] # NaN}

Lowest(S) == CHOOSE x \in S : \A y \in S : x <= y

Highest(S) == CHOOSE x \in S : \A y \in S : x >= y

\* Series.interpolate(method="linear", limit_direction="both") on the cells
\* of one column: a gap between two values is filled on the straight line
\* through them over the row positions, a gap before the first value or after
\* the last takes that value, and a column with no value is left as it is.
\* (A group has at most three rows and the cells are odd, so the only interior
\* gap is a midpoint and the division is exact.)
LinearInterpolate(col) ==
    IF ValidPositions(col) = {} THEN col
    ELSE [p \in DOMAIN col |->
            IF col[p] # NaN THEN col[p]
            ELSE LET below == {q \in ValidPositions(col) : q < p}
                     above == {q \in ValidPositions(col) : q > p}
                 IN  IF below = {} THEN col[Lowest(above)]
                     ELSE IF above = {} THEN col[Highest(below)]
                     ELSE LET l == Highest(below)
                              r == Lowest(above)
                          IN  col[l] + ((col[r] - col[l]) * (p - l)) \div (r - l)]

\* g.interpolate(...) on a frame: the rows stay, val is interpolated
Interpolate(g) ==
    LET filled == LinearInterpolate([p \in DOMAIN g |-> g[p].val])
    IN  [p \in DOMAIN g |-> [g[p] EXCEPT !.val = filled[p]]]

\* df.groupby(group_col): the rows of entity e, in the order of the frame
GroupRows(frame, e) == SelectSeq(frame, LAMBDA r : r.Entity = e)

\* the group keys present in the frame, in sorted order
GroupKeys(frame) ==
    SelectSeq(EntityOrder, LAMBDA e : \E p \in DOMAIN frame : frame[p].Entity = e)

RECURSIVE Concat(_)
\* the frames the lambda returned, glued in group order; reset_index(drop=True)
\* renumbers the rows, which a sequence does by itself
Concat(frames) ==
    IF frames = <<>> THEN <<>> ELSE Head(frames) \o Concat(Tail(frames))

RECURSIVE ApplyFrom(_, _)
ApplyFrom(frame, keys) ==
    IF keys = <<>> THEN <<>>
    ELSE <<Interpolate(GroupRows(frame, Head(keys)))>> \o ApplyFrom(frame, Tail(keys))

\* interpolate_missing(df), whole
interpolate_missing(frame) == Concat(ApplyFrom(frame, GroupKeys(frame)))

\* the largest number of rows of a frame
MaxFrameRows == 3

InterpYears == {2000, 2001, 2002}

InterpCells == {NaN, 1, 3}

InterpKeys == {"A", "B"} \X InterpYears

\* the frames of n rows: no two rows for the same entity and year, every row
\* order, any cells
FramesOfLength(n) ==
    {[p \in 1..n |-> [Entity |-> ks[p][1], Year |-> ks[p][2], val |-> cs[p]]] :
        ks \in {f \in [1..n -> InterpKeys] : \A a, b \in 1..n : a # b => f[a] # f[b]},
        cs \in [1..n -> InterpCells]}

InterpStart ==
    /\ im_df \in UNION {FramesOfLength(n) : n \in 0..MaxFrameRows}
    /\ im_applied = <<>>
    /\ im_out = NoneValue
    /\ im_pc = "apply"

InterpIdle ==
    /\ im_df = NoneValue
    /\ im_applied = <<>>
    /\ im_out = NoneValue
    /\ im_pc = "idle"

\* groupby(...).apply: the lambda is called on the next group
InterpApply ==
    /\ im_pc = "apply"
    /\ Len(im_applied) < Len(GroupKeys(im_df))
    /\ im_applied' = Append(im_applied,
                            Interpolate(GroupRows(im_df, GroupKeys(im_df)[Len(im_applied) + 1])))
    /\ UNCHANGED <<im_df, im_out, im_pc>>
    /\ UNCHANGED notInterp

\* every group is done: the results are glued, the index is reset, the frame
\* is returned
InterpReturn ==
    /\ im_pc = "apply"
    /\ Len(im_applied) = Len(GroupKeys(im_df))
    /\ im_out' = Concat(im_applied)
    /\ im_pc' = "returned"
    /\ UNCHANGED <<im_df, im_applied>>
    /\ UNCHANGED notInterp

InterpReturned == im_pc = "returned"

NextInterp == InterpApply \/ InterpReturn

\* the steps and the function agree
InterpStepsAgree == InterpReturned => im_out = interpolate_missing(im_df)

(***************************************************************************)
(* Specifications: one per part, the other parts idle.                     *)
(***************************************************************************)

InitMerge == MergeStart /\ LogIdle /\ FilterIdle /\ EntityIdle /\ LoopIdle /\ PipeIdle /\ InterpIdle

SpecMerge == InitMerge /\ [][NextMerge]_vars

InitLog == LogStart /\ MergeIdle /\ FilterIdle /\ EntityIdle /\ LoopIdle /\ PipeIdle /\ InterpIdle

SpecLog == InitLog /\ [][NextLog]_vars

InitFilter == FilterStart /\ MergeIdle /\ LogIdle /\ EntityIdle /\ LoopIdle /\ PipeIdle /\ InterpIdle

SpecFilter == InitFilter /\ [][NextFilter]_vars

InitEntity == EntityStart /\ MergeIdle /\ LogIdle /\ FilterIdle /\ LoopIdle /\ PipeIdle /\ InterpIdle

SpecEntity == InitEntity /\ [][NextEntity]_vars

InitLoop == LoopStart /\ MergeIdle /\ LogIdle /\ FilterIdle /\ EntityIdle /\ PipeIdle /\ InterpIdle

SpecLoop == InitLoop /\ [][NextLoop]_vars

InitPipe == PipeStart /\ MergeIdle /\ LogIdle /\ FilterIdle /\ EntityIdle /\ LoopIdle /\ InterpIdle

SpecPipe == InitPipe /\ [][NextPipe]_vars

InitInterp ==
    InterpStart /\ MergeIdle /\ LogIdle /\ FilterIdle /\ EntityIdle /\ LoopIdle /\ PipeIdle

SpecInterp == InitInterp /\ [][NextInterp]_vars

(***************************************************************************)
(* Claims                                                                  *)
(***************************************************************************)

LogEnded == LogReturned \/ LogRaisedValueError \/ LogRaisedKeyError

\* a call whose listed columns all exist and one of which holds a negative value
LogNegativeCall ==
    /\ LogEnded
    /\ \A i \in DOMAIN lt_columns : lt_columns[i] \in lt_before.cols
    /\ \E i \in DOMAIN lt_columns : HasNegative(lt_before, lt_columns[i])

\* C1: log_transform on a list in which some listed column holds a negative
\* value raises ValueError and leaves the dataframe exactly as it was before
\* the call, wherever the offending column stands in the list.
C1_NegativeLeavesFrameUntouched ==
    LogNegativeCall => (LogRaisedValueError /\ lt_df = lt_before)

MergeOuterDone == MergeReturned /\ join = "outer" /\ Len(datasets) >= 1

\* the cell table k holds for a triple it has
SourceCell(k, key) ==
    (CHOOSE r \in datasets[k].rows : MERGE_COLUMNS(r) = key).vals[ColumnOf(k)]

MergedTriplesAreUnion ==
    Triples(merged) = UNION {Triples(datasets[k]) : k \in DOMAIN datasets}

\* C4 as stated: after an outer merge of a non-empty mapping the triples of the
\* result are the union of the inputs' triples, and a measurement column is null
\* exactly for the triples absent from the table that supplies it.
C4_NullExactlyWhenAbsent ==
    MergeOuterDone =>
        /\ MergedTriplesAreUnion
        /\ \A k \in DOMAIN datasets : \A r \in merged.rows :
              (r.vals[ColumnOf(k)] = NaN) <=> (MERGE_COLUMNS(r) \notin Triples(datasets[k]))

\* C4 as amended: after an outer merge of a non-empty mapping the triples of the
\* result are the union of the inputs' triples; a measurement column is null for
\* every triple absent from the table that supplies it, and for a triple that
\* table has it holds the table's own cell, null where that cell is null.
C4_OuterJoinComplete ==
    MergeOuterDone =>
        /\ MergedTriplesAreUnion
        /\ \A k \in DOMAIN datasets : \A r \in merged.rows :
              r.vals[ColumnOf(k)] =
                  IF MERGE_COLUMNS(r) \in Triples(datasets[k])
                  THEN SourceCell(k, MERGE_COLUMNS(r))
                  ELSE NaN

\* two tables that share a triple and each hold one the other lacks, merged
C4_Witness ==
    /\ MergeOuterDone
    /\ Len(datasets) = 2
    /\ Triples(datasets[1]) \cap Triples(datasets[2]) # {}
    /\ Triples(datasets[1]) \ Triples(datasets[2]) # {}
    /\ Triples(datasets[2]) \ Triples(datasets[1]) # {}
    /\ \E r \in merged.rows : r.vals[ColumnOf(1)] = NaN /\ r.vals[ColumnOf(2)] # NaN

\* C5: merge_dict_datasets called with an empty mapping signals an error
\* instead of returning an empty or undefined result.
C5_EmptyMappingRaises ==
    (datasets = <<>> /\ (MergeReturned \/ MergeRaised)) => MergeRaised

BothFiltered == kept_coarse # NoneValue /\ kept_fine # NoneValue

\* no entity column_pct kept has a column whose null percentage reaches the threshold
FineKeepsOnlyClean ==
    kept_fine # NoneValue =>
        /\ kept_fine.rows \subseteq f_df.rows
        /\ \A e \in EntitiesOf(kept_fine) :
              /\ Group(kept_fine, e) = Group(f_df, e)
              /\ \A c \in AllColumns(f_df) :
                    1000 * NullCount(f_df, e, c) < column_threshold * Cardinality(Group(f_df, e))

\* C6 as stated: for every pair of thresholds the entities column_pct keeps are
\* among those remove_high_null_entities keeps on the same panel, and no entity
\* column_pct keeps has a column whose null percentage is >= column_threshold.
C6_FineWithinCoarseAlways ==
    /\ FineKeepsOnlyClean
    /\ BothFiltered => EntitiesOf(kept_fine) \subseteq EntitiesOf(kept_coarse)

\* C6 as amended: no entity column_pct keeps has a column whose null percentage
\* is >= column_threshold; and when column_threshold / 100 <= null_threshold (as
\* with the configured 0.2 and 0.8) the entities column_pct keeps are among
\* those remove_high_null_entities keeps on the same panel.
C6_FineWithinCoarse ==
    /\ FineKeepsOnlyClean
    /\ (BothFiltered /\ column_threshold <= null_threshold) =>
          EntitiesOf(kept_fine) \subseteq EntitiesOf(kept_coarse)

\* both filters ran with compatible thresholds, the coarse one kept an entity
\* that the fine one dropped, and the fine one kept another
C6_Witness ==
    /\ BothFiltered
    /\ column_threshold <= null_threshold
    /\ EntitiesOf(kept_fine) # {}
    /\ EntitiesOf(kept_coarse) \ EntitiesOf(kept_fine) # {}

\* the entities with at least two observations, in the order of the loop
FittedEntities == SelectSeq(EntityOrder, LAMBDA e : Cardinality(Group(e_data, e)) >= 2)

\* C8: the per-entity fit never fails because of group size: a group with fewer
\* than 2 observations is left out without error, and every group with n >= 2
\* observations (whose x values vary) contributes one slope and one adjusted
\* R^2 = 1 - (1 - r^2)(n - 1)/(n - k - 1), k = 1.
C8_NoFailureFromGroupSize ==
    /\ ~EntityRaisedZeroDivision
    /\ EntityReported =>
          /\ Len(beta_values) = Len(FittedEntities)
          /\ Len(adjusted_r_squared_values) = Len(FittedEntities)

\* the pairs whose raw-panel analysis was attempted and succeeded
RawSucceeded == {raw_log[j].pair : j \in {x \in DOMAIN raw_log : raw_log[x].ok}}

WorldAttempted == {world_log[j].pair : j \in DOMAIN world_log}

\* C2: one bad pair never aborts the batch: whatever fails, every configured
\* pair is attempted, in list order, and the run goes on to the summary.
C2_BatchNeverAborts ==
    /\ o_pc \in {"raw", "world", "done"}
    /\ \A j \in DOMAIN raw_log : raw_log[j].pair = j
    /\ o_pc = "done" => Len(raw_log) = Len(scaling_pairs)
    /\ o_pc # "done" => ENABLED NextLoop

\* the summary is reached after a raw-panel failure and a world failure
C2_Witness ==
    /\ o_pc = "done"
    /\ Len(scaling_pairs) >= 2
    /\ \E j \in DOMAIN raw_log : ~raw_log[j].ok
    /\ \E j \in DOMAIN world_log : ~world_log[j].ok

\* C3 as stated: the two fits of a pair are attempted independently, so a
\* failed raw-panel analysis does not keep the pair's world analysis from
\* being attempted: at the end the world analysis of every pair was attempted.
C3_WorldAttemptedForEveryPair ==
    o_pc = "done" => WorldAttempted = DOMAIN scaling_pairs

\* C3 as amended: each fit has its own handler; the world analysis of a pair
\* is attempted exactly when the pair's raw-panel analysis succeeded (a raw
\* failure skips it and moves to the next pair), a world success is recorded,
\* and a world failure leaves the pair's raw-panel result recorded.
C3_WorldFollowsRawSuccess ==
    /\ WorldAttempted \subseteq RawSucceeded
    /\ o_pc \in {"raw", "done"} => WorldAttempted = RawSucceeded
    /\ \A idx \in RawSucceeded : HasKey(all_results, scaling_pairs[idx].title)
    /\ \A j \in DOMAIN world_log :
          world_log[j].ok =>
              HasKey(all_world_results, scaling_pairs[world_log[j].pair].title \o " (World)")

\* one pair failed on the raw panel, another succeeded there and failed on
\* the world table
C3_Witness ==
    /\ o_pc = "done"
    /\ \E j \in DOMAIN raw_log : ~raw_log[j].ok
    /\ \E j \in DOMAIN world_log :
          /\ ~world_log[j].ok
          /\ HasKey(printed, scaling_pairs[world_log[j].pair].title)
          /\ ~HasKey(printed_world, scaling_pairs[world_log[j].pair].title \o " (World)")

\* C9: after the loop the raw-panel summary lists exactly the pairs whose
\* raw-panel analysis succeeded: one entry for each of them, none for a failed
\* pair, also when pairs share a title.
C9_SummaryListsSucceededPairs ==
    o_pc = "done" =>
        /\ Len(printed) = Cardinality(RawSucceeded)
        /\ \A idx \in RawSucceeded : HasKey(printed, scaling_pairs[idx].title)
        /\ \A j \in DOMAIN printed :
              \E idx \in RawSucceeded : scaling_pairs[idx].title = printed[j].key

\* the loop has been reached: the regressions run from here on
RegressionsStart == p_pc = "analysis"

\* C7: on every run the panel goes through the identifier filter, the
\* year-range filter, the entity null-rate filter, the column-conditional
\* filter and the per-entity interpolation, in this order, then through the log
\* transform, and only then are the regressions run.
C7_FiveCleaningStagesThenLog ==
    RegressionsStart =>
        stages = <<"remove_entities_without_iso", "select_year_range",
                   "remove_high_null_entities", "column_pct", "interpolate_missing",
                   "log_transform">>

\* C10: in the world table the value of a log-transformed regression column for
\* a year is the log transform of the year's sum of the raw measurement over
\* the entities, not the sum of the entities' log-transformed values.
C10_WorldLogIsLogOfSum ==
    RegressionsStart =>
        \A r \in p_world.rows :
            /\ r.vals["GDP_log"] = Log1p(r.vals["GDP"], config.log_base)
            /\ r.vals["Population_log"] = Log1p(r.vals["Population"], config.log_base)

\* the rows of entity e in Year-ascending order, interpolated in that order
YearOrderedFill(e) ==
    Interpolate(SortSeq(GroupRows(im_df, e), LAMBDA a, b : a.Year < b.Year))

\* C11: interpolate_missing is group-scoped and Year-ordered: every row comes
\* back, and the value a row comes back with is the one obtained by
\* interpolating the rows of its own Entity taken in Year-ascending order,
\* whatever the other entities hold and whatever the row order of the frame
\* (so 1, null, 3 at 2000, 2001, 2002 gives 2 at 2001, a group of one row
\* and a group with no value come back unchanged).
C11_GroupScopedYearOrdered ==
    InterpReturned =>
        /\ Len(im_out) = Len(im_df)
        /\ \A p \in DOMAIN im_out :
              \E q \in DOMAIN YearOrderedFill(im_out[p].Entity) :
                  YearOrderedFill(im_out[p].Entity)[q] = im_out[p]

\* every group of the frame stands in Year-ascending order
InterpYearSorted ==
    \A p, q \in DOMAIN im_df :
        (p < q /\ im_df[p].Entity = im_df[q].Entity) => im_df[p].Year < im_df[q].Year

\* on a frame whose groups stand in Year-ascending order the two agree
C11_HoldsOnYearSortedFrames == InterpYearSorted => C11_GroupScopedYearOrdered

====
